---- MODULE Spec2Model ----
(***************************************************************************)
(* Task tracking service of the To_Do_list repository: the PostgreSQL      *)
(* functions of tasks/db_init.py (the store), the TaskDatabase wrapper of  *)
(* tasks/db_utils.py, the TaskManager of tasks/tasks.py (the service) and   *)
(* the create view of tasks/views.py.                                      *)
(*                                                                         *)
(* Strings are sequences of one-character strings, so that trimming and    *)
(* case folding are computed and not assumed.  An optional value (Python   *)
(* None, SQL NULL) is a set with no element; a present value v is {v}.      *)
(***************************************************************************)
EXTENDS Integers, Sequences, FiniteSets, TLC

\* ---------------------------------------------------------------- bounds
\* The SERIAL sequence hands out ids 1..MaxTasks, then creation stops.
MaxTasks == 2
\* The wall clock runs from 0 to MaxClock.
MaxClock == 1
\* While calls run at the same time, the ids are 1..MaxConcTasks.
MaxConcTasks == 1
\* While calls on different ids run at the same time, the ids are
\* 1..MaxIndepTasks.
MaxIndepTasks == 2

\* Rows created in a run of the HTTP interface.
MaxHttpTasks == 1

\* Rows created while deletions of one id run at the same time.
MaxDelTasks == 2

\* ------------------------------------------------------- optional values
None == {}
Some(v) == {v}
IsNone(o) == o = {}
Val(o) == CHOOSE v \in o : TRUE
\* SQL COALESCE(a, b)
Coalesce(a, b) == IF a = {} THEN b ELSE a

\* ---------------------------------------------------------------- strings
\* PostgreSQL trim(text) removes spaces only.
PgTrimChars == {" "}
\* Python str.strip() removes every whitespace character.
PyWhitespace == {" ", "\t"}

RECURSIVE LStrip(_, _)
LStrip(s, chars) ==
    IF s # <<>> /\ Head(s) \in chars THEN LStrip(Tail(s), chars) ELSE s

RECURSIVE RStrip(_, _)
RStrip(s, chars) ==
    IF s # <<>> /\ s[Len(s)] \in chars
    THEN RStrip(SubSeq(s, 1, Len(s) - 1), chars)
    ELSE s

\* SQL trim(s): both ends, spaces
Trim(s) == RStrip(LStrip(s, PgTrimChars), PgTrimChars)

\* Python s.strip()
Strip(s) == RStrip(LStrip(s, PyWhitespace), PyWhitespace)

UpperChars == <<"A","B","C","D","E","F","G","H","I","J","K","L","M",
                "N","O","P","Q","R","S","T","U","V","W","X","Y","Z">>
LowerChars == <<"a","b","c","d","e","f","g","h","i","j","k","l","m",
                "n","o","p","q","r","s","t","u","v","w","x","y","z">>

LowerOf ==
    [c \in {UpperChars[i] : i \in 1..Len(UpperChars)} |->
        LowerChars[CHOOSE i \in 1..Len(UpperChars) : UpperChars[i] = c]]

LowerChar(c) == IF c \in DOMAIN LowerOf THEN LowerOf[c] ELSE c

\* Python str.lower() and SQL lower(): the same on these characters
RECURSIVE Lower(_)
Lower(s) == IF s = <<>> THEN <<>> ELSE <<LowerChar(Head(s))>> \o Lower(Tail(s))

\* ------------------------------------------------------- string literals
PENDING == <<"p","e","n","d","i","n","g">>
IN_PROGRESS == <<"i","n","_","p","r","o","g","r","e","s","s">>
COMPLETED == <<"c","o","m","p","l","e","t","e","d">>
\* TaskBaseSerializer.VALID_STATUSES
VALID_STATUSES == {PENDING, IN_PROGRESS, COMPLETED}

\* ------------------------------------------------------------ timestamps
\* One clock unit is half an hour; Asia/Kolkata is UTC+05:30.
KolkataOffset == 11
\* Column widths of the tasks table.
TitleWidth == 255
StatusWidth == 50

\* (CURRENT_TIMESTAMP AT TIME ZONE 'Asia/Kolkata') stored into a TIMESTAMP
\* WITH TIME ZONE column: the Kolkata wall clock, read back as an instant of
\* the session's zone (UTC in a Django connection).
KolkataNow(now) == now + KolkataOffset

\* (t AT TIME ZONE 'UTC' AT TIME ZONE 'Asia/Kolkata'): the UTC wall clock of
\* t taken as a Kolkata wall clock.
AsKolkataInstant(t) == t - KolkataOffset

\* ------------------------------------------------------------- the store
\* A store is a function from the ids of the rows of table tasks to the rows.
\* Every store function returns a record: exc (the exception raised, if any),
\* the store and the sequence after the call, and the function's result.

Row(id, title, description, due_date, status, created_at, update_task) ==
    [id |-> id, title |-> title, description |-> description,
     due_date |-> due_date, status |-> status,
     created_at |-> created_at, update_task |-> update_task]

\* CASE WHEN d IS NULL OR trim(d) = '' THEN NULL ELSE trim(d) END
NormDescriptionNew(p_description) ==
    IF IsNone(p_description) \/ Trim(Val(p_description)) = <<>>
    THEN None
    ELSE Some(Trim(Val(p_description)))

\* Not the code: the new id is one more than the largest id of the table,
\* not the next value of the sequence.
create_new_task_max_id(store, seq, now, p_title, p_description, p_due_date, p_status) ==
    LET id == IF DOMAIN store = {} THEN 1
              ELSE 1 + CHOOSE i \in DOMAIN store : \A j \in DOMAIN store : j <= i
        status == IF IsNone(p_status) \/ Trim(Val(p_status)) = <<>>
                  THEN PENDING
                  ELSE Val(p_status)
        row == Row(id, Trim(Val(p_title)), NormDescriptionNew(p_description),
                   p_due_date, Lower(Trim(status)),
                   KolkataNow(now), KolkataNow(now))
    IN  IF IsNone(p_title) \/ Trim(Val(p_title)) = <<>>
        THEN [exc |-> Some("RaiseException"), store |-> store, seq |-> seq,
              result |-> None]
        ELSE [exc |-> None, store |-> (id :> row) @@ store, seq |-> seq + 1,
              result |-> Some(id)]

\* FUNCTION create_new_task(p_title, p_description, p_due_date, p_status)
create_new_task(store, seq, now, p_title, p_description, p_due_date, p_status) ==
    LET status == IF IsNone(p_status) \/ Trim(Val(p_status)) = <<>>
                  THEN PENDING
                  ELSE Val(p_status)
        row == Row(seq, Trim(Val(p_title)), NormDescriptionNew(p_description),
                   p_due_date, Lower(Trim(status)),
                   KolkataNow(now), KolkataNow(now))
    IN  IF IsNone(p_title) \/ Trim(Val(p_title)) = <<>>
        THEN [exc |-> Some("RaiseException"), store |-> store, seq |-> seq,
              result |-> None]
        ELSE IF Len(row.title) > TitleWidth \/ Len(row.status) > StatusWidth
        THEN [exc |-> Some("DataError"), store |-> store, seq |-> seq + 1,
              result |-> None]
        ELSE [exc |-> None, store |-> (seq :> row) @@ store, seq |-> seq + 1,
              result |-> Some(seq)]

\* The SELECT list of get_all_tasks and get_task_by_id
Selected(t) ==
    Row(t.id, t.title, t.description, t.due_date, t.status,
        AsKolkataInstant(t.created_at), AsKolkataInstant(t.update_task))

\* ORDER BY CASE WHEN due_date IS NOT NULL THEN 0 ELSE 1 END,
\*          due_date ASC, created_at DESC: a comes strictly before b
DueRank(t) == IF t.due_date # None THEN 0 ELSE 1

\* Not the code: an ORDER BY whose last key is created_at ASC.
OrderBeforeOldestFirst(a, b) ==
    \/ DueRank(a) < DueRank(b)
    \/ /\ DueRank(a) = DueRank(b)
       /\ DueRank(a) = 0
       /\ Val(a.due_date) < Val(b.due_date)
    \/ /\ DueRank(a) = DueRank(b)
       /\ (DueRank(a) = 0 => Val(a.due_date) = Val(b.due_date))
       /\ a.created_at < b.created_at

OrderBefore(a, b) ==
    \/ DueRank(a) < DueRank(b)
    \/ /\ DueRank(a) = DueRank(b)
       /\ DueRank(a) = 0
       /\ Val(a.due_date) < Val(b.due_date)
    \/ /\ DueRank(a) = DueRank(b)
       /\ (DueRank(a) = 0 => Val(a.due_date) = Val(b.due_date))
       /\ a.created_at > b.created_at

\* The orders in which the rows with ids in S can come out of the ORDER BY:
\* rows that compare equal come in any order.
RECURSIVE Ordered(_, _)
Ordered(store, S) ==
    IF S = {}
    THEN {<<>>}
    ELSE UNION {{<<Selected(store[m])>> \o rest : rest \in Ordered(store, S \ {m})} :
                m \in {i \in S : \A j \in S : ~OrderBefore(store[j], store[i])}}

\* Not the code: a SELECT with LIMIT 1.
get_all_tasks_limit_1(store) ==
    {IF l = <<>> THEN l ELSE <<l[1]>> : l \in Ordered(store, DOMAIN store)}

\* FUNCTION get_all_tasks(): the set of the sequences it can return
get_all_tasks(store) == Ordered(store, DOMAIN store)

\* FUNCTION get_task_by_id(p_id)
get_task_by_id(store, p_id) ==
    IF p_id < 1
    THEN [exc |-> Some("RaiseException"), result |-> None]
    ELSE [exc |-> None,
          result |-> IF p_id \in DOMAIN store THEN Some(Selected(store[p_id]))
                     ELSE None]

\* Not the code: a SET list without the title.
UpdatedRowKeepsTitle(t, now, p_title, p_description, p_due_date, p_status) ==
    Row(t.id,
        t.title,
        IF IsNone(p_description) THEN t.description
        ELSE IF Trim(Val(p_description)) = <<>> THEN None
        ELSE Some(Trim(Val(p_description))),
        Coalesce(p_due_date, t.due_date),
        IF IsNone(p_status) THEN t.status ELSE Lower(Trim(Val(p_status))),
        t.created_at,
        KolkataNow(now))

\* Not the code: a SET list that stamps created_at and not update_task.
UpdatedRowStampsCreation(t, now, p_title, p_description, p_due_date, p_status) ==
    Row(t.id,
        IF IsNone(p_title) THEN t.title ELSE Trim(Val(p_title)),
        IF IsNone(p_description) THEN t.description
        ELSE IF Trim(Val(p_description)) = <<>> THEN None
        ELSE Some(Trim(Val(p_description))),
        Coalesce(p_due_date, t.due_date),
        IF IsNone(p_status) THEN t.status ELSE Lower(Trim(Val(p_status))),
        KolkataNow(now),
        t.update_task)

\* Not the code: a SET list with due_date = NULL.
UpdatedRowClearsDueDate(t, now, p_title, p_description, p_due_date, p_status) ==
    Row(t.id,
        IF IsNone(p_title) THEN t.title ELSE Trim(Val(p_title)),
        IF IsNone(p_description) THEN t.description
        ELSE IF Trim(Val(p_description)) = <<>> THEN None
        ELSE Some(Trim(Val(p_description))),
        None,
        IF IsNone(p_status) THEN t.status ELSE Lower(Trim(Val(p_status))),
        t.created_at,
        KolkataNow(now))

\* The SET list of the UPDATE in update_task_by_id
UpdatedRow(t, now, p_title, p_description, p_due_date, p_status) ==
    Row(t.id,
        IF IsNone(p_title) THEN t.title ELSE Trim(Val(p_title)),
        IF IsNone(p_description) THEN t.description
        ELSE IF Trim(Val(p_description)) = <<>> THEN None
        ELSE Some(Trim(Val(p_description))),
        Coalesce(p_due_date, t.due_date),
        IF IsNone(p_status) THEN t.status ELSE Lower(Trim(Val(p_status))),
        t.created_at,
        KolkataNow(now))

\* Not the code: an UPDATE without its WHERE clause.
update_task_by_id_every_row(store, now, p_id, p_title, p_description, p_due_date, p_status) ==
    IF p_id < 1
    THEN [exc |-> Some("RaiseException"), store |-> store, result |-> FALSE]
    ELSE IF ~IsNone(p_title) /\ Trim(Val(p_title)) = <<>>
    THEN [exc |-> Some("RaiseException"), store |-> store, result |-> FALSE]
    ELSE IF p_id \notin DOMAIN store
    THEN [exc |-> None, store |-> store, result |-> FALSE]
    ELSE [exc |-> None,
          store |-> [i \in DOMAIN store |->
                        UpdatedRow(store[i], now, p_title, p_description,
                                   p_due_date, p_status)],
          result |-> TRUE]

\* Not the code: an UPDATE that inserts the row it does not find.
update_task_by_id_upsert(store, now, p_id, p_title, p_description, p_due_date, p_status) ==
    IF p_id < 1
    THEN [exc |-> Some("RaiseException"), store |-> store, result |-> FALSE]
    ELSE IF ~IsNone(p_title) /\ Trim(Val(p_title)) = <<>>
    THEN [exc |-> Some("RaiseException"), store |-> store, result |-> FALSE]
    ELSE IF p_id \notin DOMAIN store
    THEN [exc |-> None,
          store |-> (p_id :> Row(p_id,
                                 IF IsNone(p_title) THEN <<>> ELSE Trim(Val(p_title)),
                                 NormDescriptionNew(p_description), p_due_date,
                                 IF IsNone(p_status) THEN PENDING
                                 ELSE Lower(Trim(Val(p_status))),
                                 KolkataNow(now), KolkataNow(now))) @@ store,
          result |-> TRUE]
    ELSE [exc |-> None,
          store |-> [store EXCEPT ![p_id] =
                        UpdatedRow(store[p_id], now, p_title, p_description,
                                   p_due_date, p_status)],
          result |-> TRUE]

\* FUNCTION update_task_by_id(p_id, p_title, p_description, p_due_date, p_status)
update_task_by_id(store, now, p_id, p_title, p_description, p_due_date, p_status) ==
    IF p_id < 1
    THEN [exc |-> Some("RaiseException"), store |-> store, result |-> FALSE]
    ELSE IF ~IsNone(p_title) /\ Trim(Val(p_title)) = <<>>
    THEN [exc |-> Some("RaiseException"), store |-> store, result |-> FALSE]
    ELSE IF p_id \notin DOMAIN store
    THEN [exc |-> None, store |-> store, result |-> FALSE]
    ELSE LET row == UpdatedRow(store[p_id], now, p_title, p_description,
                               p_due_date, p_status)
         IN  IF Len(row.title) > TitleWidth \/ Len(row.status) > StatusWidth
             THEN [exc |-> Some("DataError"), store |-> store, result |-> FALSE]
             ELSE [exc |-> None, store |-> [store EXCEPT ![p_id] = row],
                   result |-> TRUE]

\* Not the code: a delete that marks the row and leaves it in the table.
delete_task_by_id_soft(store, p_id) ==
    IF p_id < 1
    THEN [exc |-> Some("RaiseException"), store |-> store, result |-> FALSE]
    ELSE [exc |-> None, store |-> store, result |-> p_id \in DOMAIN store]

\* Not the code: a DELETE without its WHERE clause.
delete_task_by_id_every_row(store, p_id) ==
    IF p_id < 1
    THEN [exc |-> Some("RaiseException"), store |-> store, result |-> FALSE]
    ELSE [exc |-> None,
          store |-> IF p_id \in DOMAIN store THEN <<>> ELSE store,
          result |-> p_id \in DOMAIN store]

\* FUNCTION delete_task_by_id(p_id)
delete_task_by_id(store, p_id) ==
    IF p_id < 1
    THEN [exc |-> Some("RaiseException"), store |-> store, result |-> FALSE]
    ELSE [exc |-> None,
          store |-> [i \in DOMAIN store \ {p_id} |-> store[i]],
          result |-> p_id \in DOMAIN store]

\* ---------------------------------------------------------- TaskDatabase
\* class TaskDTO
TaskDTO(id, title, description, due_date, status, created_at, update_task) ==
    [id |-> id, title |-> title, description |-> description,
     due_date |-> due_date, status |-> status,
     created_at |-> created_at, update_task |-> update_task]

\* TaskDatabase.create_task(task): the id, or the store's exception
TaskDatabase_create_task(store, seq, now, task) ==
    create_new_task(store, seq, now, Some(task.title), task.description,
                    task.due_date, Some(task.status))

\* TaskDatabase.get_all_tasks()
TaskDatabase_get_all_tasks(store) == get_all_tasks(store)

\* TaskDatabase.get_task(task_id): the row as a TaskDTO, or None
TaskDatabase_get_task(store, task_id) == get_task_by_id(store, task_id)

\* TaskDatabase.update_task(task)
TaskDatabase_update_task(store, now, task) ==
    update_task_by_id(store, now, task.id, Some(task.title),
                      task.description, task.due_date, Some(task.status))

\* TaskDatabase.delete_task(task_id)
TaskDatabase_delete_task(store, task_id) == delete_task_by_id(store, task_id)

\* ----------------------------------------------------------- TaskManager
\* The outcome of a call: kind is "return" or the exception raised, val is
\* Some(the value returned) or None when the call raised, store and seq are
\* the table and its sequence after the call.
Outcome(kind, val, store, seq) ==
    [kind |-> kind, val |-> val, store |-> store, seq |-> seq]

\* An exception of the store that is no ValueError is logged and re-raised.
Reraised(exc) == "DatabaseError"

\* Not the code: create_task without the check of lines 31-34.
TaskManager_create_task_unchecked(store, seq, now, title, description, due_date, status) ==
    LET task == TaskDTO(None, title, description, due_date, Lower(status),
                        None, None)
        r == TaskDatabase_create_task(store, seq, now, task)
    IN  IF r.exc # None
        THEN Outcome(Reraised(r.exc), None, r.store, r.seq)
        ELSE Outcome("return", r.result, r.store, r.seq)

\* TaskManager.create_task(title, description, due_date, status)
TaskManager_create_task(store, seq, now, title, description, due_date, status) ==
    IF Strip(title) = <<>>
    THEN Outcome("ValueError", None, store, seq)
    ELSE LET task == TaskDTO(None, title, description, due_date, Lower(status),
                             None, None)
             r == TaskDatabase_create_task(store, seq, now, task)
         IN  IF r.exc # None
             THEN Outcome(Reraised(r.exc), None, r.store, r.seq)
             ELSE Outcome("return", r.result, r.store, r.seq)

\* TaskManager.get_all_tasks(): the outcomes it can have
TaskManager_get_all_tasks(store, seq) ==
    {Outcome("return", Some(tasks_), store, seq) : tasks_ \in TaskDatabase_get_all_tasks(store)}

\* TaskManager.get_task(task_id)
TaskManager_get_task(store, seq, task_id) ==
    IF task_id < 1
    THEN Outcome("ValueError", None, store, seq)
    ELSE LET r == TaskDatabase_get_task(store, task_id)
         IN  IF r.exc # None
             THEN Outcome(Reraised(r.exc), None, store, seq)
             ELSE Outcome("return", Some(r.result), store, seq)

\* Not the code: a merge that sets the status to pending when none is
\* supplied.
MergedTaskResetsStatus(existing_task, title, description, due_date, status) ==
    IF title # None /\ Strip(Val(title)) = <<>>
    THEN [exc |-> Some("ValueError"), task |-> existing_task]
    ELSE [exc |-> None,
          task |-> [existing_task EXCEPT
                      !.title = IF title # None THEN Val(title) ELSE @,
                      !.description = IF description # None THEN description ELSE @,
                      !.due_date = IF due_date # None THEN due_date ELSE @,
                      !.status = IF status # None THEN Lower(Val(status))
                                 ELSE PENDING]]

\* TaskManager.update_task, lines 126-138: the fields supplied overwrite
\* those of the task read; a blank title supplied raises ValueError.
MergedTask(existing_task, title, description, due_date, status) ==
    IF title # None /\ Strip(Val(title)) = <<>>
    THEN [exc |-> Some("ValueError"), task |-> existing_task]
    ELSE [exc |-> None,
          task |-> [existing_task EXCEPT
                      !.title = IF title # None THEN Val(title) ELSE @,
                      !.description = IF description # None THEN description ELSE @,
                      !.due_date = IF due_date # None THEN due_date ELSE @,
                      !.status = IF status # None THEN Lower(Val(status)) ELSE @]]

\* TaskManager.update_task, line 141 on: the merged task is written
WriteMerged(store, seq, now, task) ==
    LET w == TaskDatabase_update_task(store, now, task)
    IN  IF w.exc # None
        THEN Outcome(Reraised(w.exc), None, w.store, seq)
        ELSE Outcome("return", Some(w.result), w.store, seq)

\* TaskManager.update_task, lines 115-138: the id is checked, the task is read
\* and the arguments are merged into it.  outcome is None when the call goes
\* on to its write, and then task is the merged task.
ReadAndMerge(store, seq, task_id, title, description, due_date, status) ==
    IF task_id < 1
    THEN [outcome |-> Some(Outcome("ValueError", None, store, seq)),
          existing_task |-> None, task |-> None]
    ELSE LET r == TaskDatabase_get_task(store, task_id)
         IN  IF r.exc # None
             THEN [outcome |-> Some(Outcome(Reraised(r.exc), None, store, seq)),
                   existing_task |-> None, task |-> None]
             ELSE IF r.result = None
             THEN [outcome |-> Some(Outcome("return", Some(FALSE), store, seq)),
                   existing_task |-> None, task |-> None]
             ELSE LET m == MergedTask(Val(r.result), title, description,
                                      due_date, status)
                  IN  IF m.exc # None
                      THEN [outcome |-> Some(Outcome("ValueError", None, store, seq)),
                            existing_task |-> r.result, task |-> None]
                      ELSE [outcome |-> None, existing_task |-> r.result,
                            task |-> Some(m.task)]

\* Not the code: update_task that inserts the row it does not find.
TaskManager_update_task_upsert(store, seq, now, task_id, title, description, due_date, status) ==
    LET m == ReadAndMerge(store, seq, task_id, title, description, due_date,
                          status)
        row == Row(task_id, IF title = None THEN <<>> ELSE Val(title),
                   description, due_date,
                   IF status = None THEN PENDING ELSE Lower(Val(status)),
                   KolkataNow(now), KolkataNow(now))
    IN  IF task_id >= 1 /\ task_id \notin DOMAIN store
        THEN Outcome("return", Some(TRUE), (task_id :> row) @@ store, seq)
        ELSE IF m.outcome # None
        THEN Val(m.outcome)
        ELSE WriteMerged(store, seq, now, Val(m.task))

\* TaskManager.update_task(task_id, title, description, due_date, status),
\* with nothing running between its read and its write
TaskManager_update_task(store, seq, now, task_id, title, description, due_date, status) ==
    LET m == ReadAndMerge(store, seq, task_id, title, description, due_date,
                          status)
    IN  IF m.outcome # None
        THEN Val(m.outcome)
        ELSE WriteMerged(store, seq, now, Val(m.task))

\* Not the code: delete_task without the check of lines 163-166.
TaskManager_delete_task_unchecked(store, seq, task_id) ==
    LET r == TaskDatabase_delete_task(store, task_id)
    IN  IF r.exc # None
        THEN Outcome(Reraised(r.exc), None, r.store, seq)
        ELSE Outcome("return", Some(r.result), r.store, seq)

\* TaskManager.delete_task(task_id)
TaskManager_delete_task(store, seq, task_id) ==
    IF task_id < 1
    THEN Outcome("ValueError", None, store, seq)
    ELSE LET r == TaskDatabase_delete_task(store, task_id)
         IN  IF r.exc # None
             THEN Outcome(Reraised(r.exc), None, r.store, seq)
             ELSE Outcome("return", Some(r.result), r.store, seq)

\* TaskManager.mark_completed(task_id)
TaskManager_mark_completed(store, seq, now, task_id) ==
    TaskManager_update_task(store, seq, now, task_id, None, None, None,
                            Some(COMPLETED))

\* TaskManager.mark_pending(task_id)
TaskManager_mark_pending(store, seq, now, task_id) ==
    TaskManager_update_task(store, seq, now, task_id, None, None, None,
                            Some(PENDING))

\* ------------------------------------------------------- the create view
\* Request data: each field is None (not sent) or Some(string).  A date
\* string is a record: iso says whether it parses, instant is what it names.
IsoFormat(instant) == [iso |-> TRUE, instant |-> instant]
NotADate == [iso |-> FALSE, instant |-> 0]
\* datetime.fromisoformat(str(d).replace('Z', '+00:00'))
FromIsoFormat(s) == s.instant

\* CharField(allow_blank=False, trim_whitespace=True): the value, or invalid
\* when the stripped string is empty or longer than max_length (0: no limit)
CharField(data, max_length) ==
    IF Strip(data) = <<>> THEN [valid |-> FALSE, value |-> <<>>]
    ELSE IF max_length > 0 /\ Len(Strip(data)) > max_length
    THEN [valid |-> FALSE, value |-> <<>>]
    ELSE [valid |-> TRUE, value |-> Strip(data)]

\* Not the code: validate_status without the check of lines 28-31.
validate_status_any(value) ==
    [valid |-> TRUE, value |-> IF value # <<>> THEN Lower(value) ELSE PENDING]

\* TaskBaseSerializer.validate_status(value)
validate_status(value) ==
    IF value # <<>> /\ Lower(value) \notin VALID_STATUSES
    THEN [valid |-> FALSE, value |-> value]
    ELSE [valid |-> TRUE, value |-> IF value # <<>> THEN Lower(value) ELSE PENDING]

\* TaskCreateSerializer(data=request.data).is_valid() and validated_data.
\* html: the data came as a form, where an empty string sent for a field that
\* allows null is read as null.
TaskCreateSerializer(data, html) ==
    LET title == IF data.title = None THEN [valid |-> FALSE, value |-> <<>>]
                 ELSE CharField(Val(data.title), TitleWidth)
        description ==
            IF data.description = None \/ (html /\ data.description = Some(<<>>))
            THEN [valid |-> TRUE, value |-> None]
            ELSE LET c == CharField(Val(data.description), 0)
                 IN  [valid |-> c.valid, value |-> Some(c.value)]
        due_date ==
            IF data.due_date = None THEN [valid |-> TRUE, value |-> None]
            ELSE IF ~Val(data.due_date).iso THEN [valid |-> FALSE, value |-> None]
            ELSE [valid |-> TRUE, value |-> Some(Val(data.due_date).instant)]
        status ==
            IF data.status = None THEN validate_status(PENDING)
            ELSE LET c == CharField(Val(data.status), 0)
                 IN  IF c.valid THEN validate_status(c.value) ELSE c
    IN  [valid |-> title.valid /\ description.valid /\ due_date.valid /\ status.valid,
         title |-> title.value, description |-> description.value,
         due_date |-> due_date.value, status |-> status.value]

HTTP_201_CREATED == 201
HTTP_400_BAD_REQUEST == 400
HTTP_500_INTERNAL_SERVER_ERROR == 500

Response(code, data, store, seq) ==
    [kind |-> "return", val |-> Some([code |-> code, data |-> data]),
     store |-> store, seq |-> seq]

\* TaskCreateView.post(request)
TaskCreateView_post(store, seq, now, data, html) ==
    LET serializer == TaskCreateSerializer(data, html)
        due_date == IF serializer.due_date # None
                    THEN Some(FromIsoFormat(IsoFormat(Val(serializer.due_date))))
                    ELSE None
        c == TaskManager_create_task(store, seq, now, serializer.title,
                                     serializer.description, due_date,
                                     serializer.status)
    IN  IF ~serializer.valid
        THEN Response(HTTP_400_BAD_REQUEST, None, store, seq)
        ELSE IF c.kind = "ValueError"
        THEN Response(HTTP_400_BAD_REQUEST, None, c.store, c.seq)
        ELSE IF c.kind # "return"
        THEN Response(HTTP_500_INTERNAL_SERVER_ERROR, None, c.store, c.seq)
        ELSE LET g == TaskManager_get_task(c.store, c.seq, Val(c.val))
             IN  Response(HTTP_201_CREATED, Val(g.val), c.store, c.seq)

\* ------------------------------------------------------- the other views
\* A storage failure (the connection is lost, the statement fails) makes the
\* database call raise; the TaskManager logs the exception and raises it
\* again.  fail is the number of the TaskManager call of the request that
\* meets the failure, 0 when none does.
StoreFailure(store, seq) ==
    Outcome(Reraised("OperationalError"), None, store, seq)

\* The outcome of the n-th TaskManager call of a request, o when the storage
\* works.  A call that raises ValueError does so before its database call.
Attempt(fail, n, o, store, seq) ==
    IF fail = n /\ o.kind # "ValueError" THEN StoreFailure(store, seq) ELSE o

HTTP_200_OK == 200
HTTP_204_NO_CONTENT == 204
HTTP_404_NOT_FOUND == 404

\* TaskCreateView.post(request) when a storage failure can happen.  Each
\* result the handler goes on with is the one element of a set: it is
\* computed once.
TaskCreateView_post_with(store, seq, now, data, html, fail) ==
    LET Read(c, g) ==
            IF g.kind # "return"
            THEN Response(HTTP_500_INTERNAL_SERVER_ERROR, None, c.store, c.seq)
            ELSE Response(HTTP_201_CREATED, Val(g.val), c.store, c.seq)
        Created(c) ==
            IF c.kind = "ValueError"
            THEN Response(HTTP_400_BAD_REQUEST, None, c.store, c.seq)
            ELSE IF c.kind # "return"
            THEN Response(HTTP_500_INTERNAL_SERVER_ERROR, None, c.store, c.seq)
            ELSE CHOOSE r \in
                    {Read(c, g) :
                        g \in {Attempt(fail, 2,
                                       TaskManager_get_task(c.store, c.seq,
                                                            Val(c.val)),
                                       c.store, c.seq)}} : TRUE
        Validated(serializer) ==
            IF ~serializer.valid
            THEN Response(HTTP_400_BAD_REQUEST, None, store, seq)
            ELSE CHOOSE r \in
                    {Created(c) :
                        c \in {Attempt(fail, 1,
                                       TaskManager_create_task(
                                           store, seq, now, serializer.title,
                                           serializer.description,
                                           IF serializer.due_date # None
                                           THEN Some(FromIsoFormat(IsoFormat(
                                                    Val(serializer.due_date))))
                                           ELSE None,
                                           serializer.status),
                                       store, seq)}} : TRUE
    IN  CHOOSE r \in {Validated(serializer) :
                        serializer \in {TaskCreateSerializer(data, html)}} : TRUE

\* TaskListView.get(request): the responses it can give
TaskListView_get(store, seq, fail) ==
    {LET o == Attempt(fail, 1, l, store, seq)
     IN  IF o.kind # "return"
         THEN Response(HTTP_500_INTERNAL_SERVER_ERROR, None, store, seq)
         ELSE Response(HTTP_200_OK, o.val, store, seq) :
     l \in TaskManager_get_all_tasks(store, seq)}

\* The get_task helper of a view: the task, or the exception it raises.
\* caught: the exceptions of TaskManager.get_task it turns into Http404.
view_get_task(store, seq, task_id, fail, caught) ==
    LET g == Attempt(fail, 1, TaskManager_get_task(store, seq, task_id),
                     store, seq)
    IN  IF g.kind # "return"
        THEN [exc |-> Some(IF g.kind \in caught THEN "Http404" ELSE g.kind),
              task |-> None]
        ELSE IF Val(g.val) = None
        THEN [exc |-> Some("Http404"), task |-> None]
        ELSE [exc |-> None, task |-> Val(g.val)]

\* TaskRetrieveView.get_task(task_id)
TaskRetrieveView_get_task(store, seq, task_id, fail) ==
    view_get_task(store, seq, task_id, fail, {"ValueError"})

\* TaskUpdateView.get_task(task_id): except (ValueError, Exception)
TaskUpdateView_get_task(store, seq, task_id, fail) ==
    view_get_task(store, seq, task_id, fail, {"ValueError", "DatabaseError"})

\* TaskDeleteView.get_task(task_id)
TaskDeleteView_get_task(store, seq, task_id, fail) ==
    view_get_task(store, seq, task_id, fail, {"ValueError"})

\* TaskRetrieveView.get(request, task_id)
TaskRetrieveView_get(store, seq, task_id, fail) ==
    LET t == TaskRetrieveView_get_task(store, seq, task_id, fail)
    IN  IF t.exc = Some("Http404")
        THEN Response(HTTP_404_NOT_FOUND, None, store, seq)
        ELSE IF t.exc # None
        THEN Response(HTTP_500_INTERNAL_SERVER_ERROR, None, store, seq)
        ELSE Response(HTTP_200_OK, t.task, store, seq)

\* TaskUpdateSerializer(task, data=request.data, partial=True): a field that
\* is not sent is not in validated_data (None here); a field that allows
\* null and is sent as null is None in validated_data.
TaskUpdateSerializer(data, html) ==
    LET title == IF data.title = None THEN [valid |-> TRUE, value |-> None]
                 ELSE LET c == CharField(Val(data.title), TitleWidth)
                      IN  [valid |-> c.valid, value |-> Some(c.value)]
        description ==
            IF data.description = None \/ (html /\ data.description = Some(<<>>))
            THEN [valid |-> TRUE, value |-> None]
            ELSE LET c == CharField(Val(data.description), 0)
                 IN  [valid |-> c.valid, value |-> Some(c.value)]
        due_date ==
            IF data.due_date = None THEN [valid |-> TRUE, value |-> None]
            ELSE IF ~Val(data.due_date).iso THEN [valid |-> FALSE, value |-> None]
            ELSE [valid |-> TRUE, value |-> Some(Val(data.due_date).instant)]
        status ==
            IF data.status = None THEN [valid |-> TRUE, value |-> None]
            ELSE LET c == CharField(Val(data.status), 0)
                     v == validate_status(c.value)
                 IN  IF c.valid THEN [valid |-> v.valid, value |-> Some(v.value)]
                     ELSE [valid |-> FALSE, value |-> None]
    IN  [valid |-> title.valid /\ description.valid /\ due_date.valid /\ status.valid,
         title |-> title.value, description |-> description.value,
         due_date |-> due_date.value, status |-> status.value]

\* TaskUpdateView.put(request, task_id).  The handler of ValueError comes
\* after the handler of Exception and is never entered.
TaskUpdateView_put(store, seq, now, task_id, data, html, fail) ==
    LET Read(u, g) ==
            IF g.kind # "return"
            THEN Response(HTTP_500_INTERNAL_SERVER_ERROR, None, u.store, seq)
            ELSE Response(HTTP_200_OK, Val(g.val), u.store, seq)
        Written(u) ==
            IF u.kind # "return"
            THEN Response(HTTP_500_INTERNAL_SERVER_ERROR, None, u.store, seq)
            ELSE IF u.val # Some(TRUE)
            THEN Response(HTTP_404_NOT_FOUND, None, u.store, seq)
            ELSE CHOOSE r \in
                    {Read(u, g) :
                        g \in {Attempt(fail, 3,
                                       TaskManager_get_task(u.store, seq, task_id),
                                       u.store, seq)}} : TRUE
        Validated(serializer) ==
            IF ~serializer.valid
            THEN Response(HTTP_400_BAD_REQUEST, None, store, seq)
            ELSE CHOOSE r \in
                    {Written(u) :
                        u \in {Attempt(fail, 2,
                                       TaskManager_update_task(
                                           store, seq, now, task_id,
                                           serializer.title,
                                           serializer.description,
                                           IF serializer.due_date # None
                                           THEN Some(FromIsoFormat(IsoFormat(
                                                    Val(serializer.due_date))))
                                           ELSE None,
                                           serializer.status),
                                       store, seq)}} : TRUE
        Found(t) ==
            IF t.exc = Some("Http404")
            THEN Response(HTTP_404_NOT_FOUND, None, store, seq)
            ELSE IF t.exc # None
            THEN Response(HTTP_500_INTERNAL_SERVER_ERROR, None, store, seq)
            ELSE CHOOSE r \in {Validated(serializer) :
                                serializer \in {TaskUpdateSerializer(data, html)}} : TRUE
    IN  CHOOSE r \in {Found(t) :
                        t \in {TaskUpdateView_get_task(store, seq, task_id, fail)}} : TRUE

\* TaskDeleteView.delete(request, task_id)
TaskDeleteView_delete(store, seq, task_id, fail) ==
    LET t == TaskDeleteView_get_task(store, seq, task_id, fail)
        d == Attempt(fail, 2, TaskManager_delete_task(store, seq, task_id),
                     store, seq)
    IN  IF t.exc = Some("Http404")
        THEN Response(HTTP_404_NOT_FOUND, None, store, seq)
        ELSE IF t.exc # None
        THEN Response(HTTP_500_INTERNAL_SERVER_ERROR, None, store, seq)
        ELSE IF d.kind # "return"
        THEN Response(HTTP_500_INTERNAL_SERVER_ERROR, None, d.store, seq)
        ELSE IF d.val = Some(TRUE)
        THEN Response(HTTP_204_NO_CONTENT, None, d.store, seq)
        ELSE Response(HTTP_404_NOT_FOUND, None, d.store, seq)

\* ---------------------------------------------------------------- inputs
\* The argument values the calls are made with.  A run varies the values of
\* one field (its focus) and gives every other field one value, so that
\* every subset of fields is supplied in some call while the table stays
\* small.  Time passes in the runs with focus "timestamps" (all fields
\* fixed) and "ordering" (due dates vary, and an update supplies nothing
\* else); the run with focus "status" makes the calls that set a status.
Fields == {"title", "description", "due_date", "status"}
Focuses == Fields \cup {"timestamps", "ordering"}

TitleValues == {<<>>, <<" ", "\t">>, <<" ", "a", " ">>, <<"b", "\t">>}
DescriptionValues == {<<>>, <<" ">>, <<"\t">>, <<" ", "d">>}
DueValues == {1, 2}
StatusValues == {PENDING, <<"C","o","m","p","l","e","t","e","d">>,
                 <<"D","o","n","e">>}

TitleFixed == <<" ", "a", " ">>
DescriptionFixed == <<" ", "d">>
DueFixed == {1}
StatusFixed == PENDING

\* An optional argument: None or one of the values
Optional(S) == {None} \cup {Some(v) : v \in S}

\* the arguments of create_task
NewTitles(f) == IF f = "title" THEN TitleValues ELSE {TitleFixed}
NewDescriptions(f) ==
    IF f = "description" THEN Optional(DescriptionValues)
    ELSE {Some(DescriptionFixed)}
NewDues(f) ==
    IF f \in {"due_date", "ordering"} THEN Optional(DueValues) ELSE {DueFixed}
NewStatuses(f) == IF f = "status" THEN StatusValues ELSE {StatusFixed}

\* the arguments of update_task
Titles(f) == IF f = "ordering" THEN {None} ELSE Optional(NewTitles(f))
Descriptions(f) ==
    IF f = "description" THEN Optional(DescriptionValues)
    ELSE IF f = "ordering" THEN {None}
    ELSE {None, Some(DescriptionFixed)}
Dues(f) ==
    IF f \in {"due_date", "ordering"} THEN Optional(DueValues)
    ELSE {None, DueFixed}
Statuses(f) == IF f = "ordering" THEN {None} ELSE Optional(NewStatuses(f))

\* the data of POST /tasks/create/
Requests(f) ==
    [title : IF f = "title" THEN Optional(TitleValues) ELSE {Some(TitleFixed)},
     description : NewDescriptions(f),
     due_date : IF f = "due_date"
                THEN Optional({IsoFormat(d) : d \in DueValues} \cup {NotADate})
                ELSE {{IsoFormat(d) : d \in DueFixed}},
     status : IF f = "status" THEN Optional(StatusValues \cup {<<>>})
              ELSE {Some(StatusFixed)}]

\* The ids the calls are made with: 0 is not positive
IdValues == 0..MaxTasks

\* A call of update_task on an id that has no row is made with a title alone:
\* the code reads no other argument before it returns.
OnRow(store, task_id, S) == IF task_id \in DOMAIN store THEN S ELSE {None}

\* ----------------------------------------------------------------- state
VARIABLES
    tasks,    \* table tasks: id -> row
    nextId,   \* the next value of the SERIAL sequence of tasks.id
    clock,    \* CURRENT_TIMESTAMP
    focus,    \* the field whose values this run varies
    deleted,  \* the ids whose delete_task returned True
    ret,      \* the last call: its name, its id argument, its outcome
    pc,       \* per client: where its update_task call is
    call,     \* per client: the arguments of its call, the task it read,
              \* its outcome
    base,     \* the table when the first call of the round started
    steps     \* the reads and writes of the round, in order

\* the state of the update_task calls in progress
calls == <<pc, call, base, steps>>

vars == <<tasks, nextId, clock, focus, deleted, ret, pc, call, base, steps>>

\* The clients whose update_task calls run at the same time.
Clients == {"A", "B"}

NoArgs ==
    [op |-> "none", task_id |-> 0, title |-> None, description |-> None, due_date |-> None,
     status |-> None, existing_task |-> None, kind |-> "none", val |-> None]

\* no update_task call is in progress
Idle ==
    /\ pc = [c \in Clients |-> "idle"]
    /\ call = [c \in Clients |-> NoArgs]
    /\ base = <<>>
    /\ steps = <<>>

Returned(op, arg, o) == [op |-> op, arg |-> arg, kind |-> o.kind, val |-> o.val]

NoCall == [op |-> "none", arg |-> None, kind |-> "return", val |-> None]

Init ==
    /\ tasks = <<>>
    /\ nextId = 1
    /\ clock = 0
    /\ focus \in Focuses
    /\ deleted = {}
    /\ ret = NoCall
    /\ Idle

\* time passes
Tick ==
    /\ clock < MaxClock
    /\ clock' = clock + 1
    /\ UNCHANGED <<tasks, nextId, focus, deleted, ret, calls>>

\* a call of TaskManager.create_task
CreateTask(title, description, due_date, status) ==
    LET o == TaskManager_create_task(tasks, nextId, clock, title, description,
                                     due_date, status)
    IN  /\ o.seq <= MaxTasks + 1
        /\ tasks' = o.store
        /\ nextId' = o.seq
        /\ ret' = Returned("create_task", None, o)
        /\ UNCHANGED <<clock, focus, deleted, calls>>

\* a call of TaskManager.get_all_tasks
GetAllTasks ==
    \E o \in TaskManager_get_all_tasks(tasks, nextId) :
        /\ ret' = Returned("get_all_tasks", None, o)
        /\ UNCHANGED <<tasks, nextId, clock, focus, deleted, calls>>

\* a call of TaskManager.get_task
GetTask(task_id) ==
    LET o == TaskManager_get_task(tasks, nextId, task_id)
    IN  /\ ret' = Returned("get_task", Some(task_id), o)
        /\ UNCHANGED <<tasks, nextId, clock, focus, deleted, calls>>

\* a call of TaskManager.update_task
UpdateTask(task_id, title, description, due_date, status) ==
    LET o == TaskManager_update_task(tasks, nextId, clock, task_id, title,
                                     description, due_date, status)
    IN  /\ tasks' = o.store
        /\ ret' = Returned("update_task", Some(task_id), o)
        /\ UNCHANGED <<nextId, clock, focus, deleted, calls>>

\* a call of TaskManager.delete_task
DeleteTask(task_id) ==
    LET o == TaskManager_delete_task(tasks, nextId, task_id)
    IN  /\ tasks' = o.store
        /\ deleted' = IF o.val = Some(TRUE) THEN deleted \cup {task_id}
                      ELSE deleted
        /\ ret' = Returned("delete_task", Some(task_id), o)
        /\ UNCHANGED <<nextId, clock, focus, calls>>

\* a call of TaskManager.mark_completed
MarkCompleted(task_id) ==
    LET o == TaskManager_mark_completed(tasks, nextId, clock, task_id)
    IN  /\ tasks' = o.store
        /\ ret' = Returned("mark_completed", Some(task_id), o)
        /\ UNCHANGED <<nextId, clock, focus, deleted, calls>>

\* a call of TaskManager.mark_pending
MarkPending(task_id) ==
    LET o == TaskManager_mark_pending(tasks, nextId, clock, task_id)
    IN  /\ tasks' = o.store
        /\ ret' = Returned("mark_pending", Some(task_id), o)
        /\ UNCHANGED <<nextId, clock, focus, deleted, calls>>

\* a request POST /tasks/create/
PostCreate(data, html) ==
    LET o == TaskCreateView_post(tasks, nextId, clock, data, html)
    IN  /\ o.seq <= MaxTasks + 1
        /\ tasks' = o.store
        /\ nextId' = o.seq
        /\ ret' = Returned("POST_create", None, o)
        /\ UNCHANGED <<clock, focus, deleted, calls>>

\* The service and the create view, one call at a time.
Next ==
    \/ (focus \in {"timestamps", "ordering"} /\ Tick)
    \/ \E title \in NewTitles(focus), description \in NewDescriptions(focus),
          due_date \in NewDues(focus), status \in NewStatuses(focus) :
            CreateTask(title, description, due_date, status)
    \/ GetAllTasks
    \/ \E task_id \in IdValues : GetTask(task_id)
    \/ \E task_id \in IdValues, title \in Titles(focus) :
       \E description \in OnRow(tasks, task_id, Descriptions(focus)),
          due_date \in OnRow(tasks, task_id, Dues(focus)),
          status \in OnRow(tasks, task_id, Statuses(focus)) :
            UpdateTask(task_id, title, description, due_date, status)
    \/ \E task_id \in IdValues : DeleteTask(task_id)
    \/ (focus = "status" /\ \E task_id \in IdValues : MarkCompleted(task_id))
    \/ (focus = "status" /\ \E task_id \in IdValues : MarkPending(task_id))
    \/ \E data \in Requests(focus), html \in BOOLEAN : PostCreate(data, html)

Spec == Init /\ [][Next]_vars

\* ------------------------------------------------- calls at the same time
\* Two clients call update_task at the same time.  A call is two steps, one
\* for each of its database calls: the read of line 121 (with the id check
\* before it and the merge after it, which touch no shared state) and the
\* write of line 141.  A round is the calls that overlap: it starts when a
\* call starts with no other in progress and is over when every call of it
\* has returned.
\* The arguments of these calls: nothing, a title, another title, a status.
ConcArgs ==
    {[title |-> None, status |-> None],
     [title |-> Some(<<"c">>), status |-> None],
     [title |-> Some(<<"e", " ">>), status |-> None],
     [title |-> None, status |-> Some(COMPLETED)]}

ConcInit ==
    /\ tasks = <<>>
    /\ nextId = 1
    /\ clock = 0
    /\ focus = "concurrency"
    /\ deleted = {}
    /\ ret = NoCall
    /\ Idle

\* client c calls update_task: lines 115-138
UpdateRead(c, task_id, title, description, due_date, status) ==
    LET m == ReadAndMerge(tasks, nextId, task_id, title, description, due_date,
                          status)
        first == \A d \in Clients : pc[d] = "idle"
    IN  /\ pc[c] = "idle"
        /\ pc' = [pc EXCEPT ![c] = IF m.outcome # None THEN "done" ELSE "write"]
        /\ call' = [call EXCEPT ![c] =
                       [op |-> "update_task", task_id |-> task_id,
                        title |-> title,
                        description |-> description, due_date |-> due_date,
                        status |-> status, existing_task |-> m.existing_task,
                        kind |-> IF m.outcome # None THEN Val(m.outcome).kind
                                 ELSE "none",
                        val |-> IF m.outcome # None THEN Val(m.outcome).val
                                ELSE None]]
        /\ base' = IF first THEN tasks ELSE base
        /\ steps' = Append(IF first THEN <<>> ELSE steps,
                           [client |-> c, step |-> "read"])
        /\ UNCHANGED <<tasks, nextId, clock, focus, deleted, ret>>

\* client c's call goes on: line 141 to the return
UpdateWrite(c) ==
    LET a == call[c]
        m == MergedTask(Val(a.existing_task), a.title, a.description,
                        a.due_date, a.status)
        o == WriteMerged(tasks, nextId, clock, m.task)
    IN  /\ pc[c] = "write"
        /\ tasks' = o.store
        /\ pc' = [pc EXCEPT ![c] = "done"]
        /\ call' = [call EXCEPT ![c].kind = o.kind, ![c].val = o.val]
        /\ steps' = Append(steps, [client |-> c, step |-> "write"])
        /\ UNCHANGED <<nextId, clock, focus, deleted, ret, base>>

\* the calls of the round have returned to their callers
EndRound ==
    /\ \E c \in Clients : pc[c] = "done"
    /\ \A c \in Clients : pc[c] \in {"idle", "done"}
    /\ pc' = [c \in Clients |-> "idle"]
    /\ call' = [c \in Clients |-> NoArgs]
    /\ base' = <<>>
    /\ steps' = <<>>
    /\ UNCHANGED <<tasks, nextId, clock, focus, deleted, ret>>

ConcNext ==
    \/ \E title \in NewTitles(focus), description \in NewDescriptions(focus),
          due_date \in NewDues(focus), status \in NewStatuses(focus) :
            nextId <= MaxConcTasks
                /\ CreateTask(title, description, due_date, status)
    \/ \E task_id \in 0..MaxConcTasks : DeleteTask(task_id)
    \/ \E c \in Clients, task_id \in 1..MaxConcTasks, args \in ConcArgs :
            UpdateRead(c, task_id, args.title, None, None, args.status)
    \/ \E c \in Clients : UpdateWrite(c)
    \/ EndRound

ConcSpec == ConcInit /\ [][ConcNext]_vars

\* ------------------------------------------ calls on different ids at once
\* The two clients call update_task and delete_task at the same time, each on
\* ids of its own: A on the odd ids, B on the even ones.  delete_task makes
\* one database call and is one step.  Tasks are created at any moment.
ClientIds(c) ==
    {i \in 1..MaxIndepTasks : i % 2 = (IF c = "A" THEN 1 ELSE 0)}

\* The arguments of these calls of update_task: a title, a status.
IndepArgs ==
    {[title |-> Some(<<"c">>), status |-> None],
     [title |-> None, status |-> Some(COMPLETED)]}

IndepInit ==
    /\ tasks = <<>>
    /\ nextId = 1
    /\ clock = 0
    /\ focus = "independence"
    /\ deleted = {}
    /\ ret = NoCall
    /\ Idle

\* client c calls delete_task
ClientDelete(c, task_id) ==
    LET o == TaskManager_delete_task(tasks, nextId, task_id)
        first == \A d \in Clients : pc[d] = "idle"
    IN  /\ pc[c] = "idle"
        /\ tasks' = o.store
        /\ deleted' = IF o.val = Some(TRUE) THEN deleted \cup {task_id}
                      ELSE deleted
        /\ ret' = Returned("delete_task", Some(task_id), o)
        /\ pc' = [pc EXCEPT ![c] = "done"]
        /\ call' = [call EXCEPT ![c] =
                       [NoArgs EXCEPT !.op = "delete_task",
                                      !.task_id = task_id,
                                      !.kind = o.kind, !.val = o.val]]
        /\ base' = IF first THEN tasks ELSE base
        /\ steps' = Append(IF first THEN <<>> ELSE steps,
                           [client |-> c, step |-> "delete"])
        /\ UNCHANGED <<nextId, clock, focus>>

IndepNext ==
    \/ \E title \in NewTitles(focus), description \in NewDescriptions(focus),
          due_date \in NewDues(focus), status \in NewStatuses(focus) :
            nextId <= MaxIndepTasks
                /\ CreateTask(title, description, due_date, status)
    \/ \E c \in Clients : \E task_id \in ClientIds(c) : ClientDelete(c, task_id)
    \/ \E c \in Clients : \E task_id \in ClientIds(c), args \in IndepArgs :
            UpdateRead(c, task_id, args.title, None, None, args.status)
    \/ \E c \in Clients : UpdateWrite(c)
    \/ EndRound

IndepSpec == IndepInit /\ [][IndepNext]_vars

\* --------------------------------------------- deletions of one id at once
\* The two clients delete at the same time, each by a call of delete_task or
\* by a request DELETE /tasks/<id>/delete/.  delete_task makes one database
\* call, a DELETE statement, and is one step; the view looks the task up and
\* then calls delete_task, and other calls run in between.
DeleteInit ==
    /\ tasks = <<>>
    /\ nextId = 1
    /\ clock = 0
    /\ focus = "deletion"
    /\ deleted = {}
    /\ ret = NoCall
    /\ Idle

\* client c sends DELETE /tasks/<task_id>/delete/: TaskDeleteView.delete,
\* line 299
DeleteLookup(c, task_id) ==
    LET t == TaskDeleteView_get_task(tasks, nextId, task_id, 0)
        first == \A d \in Clients : pc[d] = "idle"
    IN  /\ pc[c] = "idle"
        /\ pc' = [pc EXCEPT ![c] = IF t.exc # None THEN "done" ELSE "delete"]
        /\ call' = [call EXCEPT ![c] =
                       [NoArgs EXCEPT
                          !.op = "DELETE_delete",
                          !.task_id = task_id,
                          !.kind = IF t.exc # None THEN "return" ELSE "none",
                          !.val = IF t.exc = Some("Http404")
                                  THEN Some(HTTP_404_NOT_FOUND)
                                  ELSE IF t.exc # None
                                  THEN Some(HTTP_500_INTERNAL_SERVER_ERROR)
                                  ELSE None]]
        /\ base' = IF first THEN tasks ELSE base
        /\ steps' = Append(IF first THEN <<>> ELSE steps,
                           [client |-> c, step |-> "lookup"])
        /\ UNCHANGED <<tasks, nextId, clock, focus, deleted, ret>>

\* client c's request goes on: TaskDeleteView.delete, line 301 to the response
DeleteCall(c) ==
    LET o == TaskManager_delete_task(tasks, nextId, call[c].task_id)
    IN  /\ pc[c] = "delete"
        /\ tasks' = o.store
        /\ deleted' = IF o.val = Some(TRUE) THEN deleted \cup {call[c].task_id}
                      ELSE deleted
        /\ pc' = [pc EXCEPT ![c] = "done"]
        /\ call' = [call EXCEPT
                       ![c].kind = "return",
                       ![c].val = Some(IF o.kind # "return"
                                       THEN HTTP_500_INTERNAL_SERVER_ERROR
                                       ELSE IF o.val = Some(TRUE)
                                       THEN HTTP_204_NO_CONTENT
                                       ELSE HTTP_404_NOT_FOUND)]
        /\ steps' = Append(steps, [client |-> c, step |-> "delete"])
        /\ UNCHANGED <<nextId, clock, focus, ret, base>>

DeleteNext ==
    \/ \E title \in NewTitles(focus), description \in NewDescriptions(focus),
          due_date \in NewDues(focus), status \in NewStatuses(focus) :
            nextId <= MaxDelTasks
                /\ CreateTask(title, description, due_date, status)
    \/ \E c \in Clients, task_id \in 0..MaxDelTasks : ClientDelete(c, task_id)
    \/ \E c \in Clients, task_id \in 0..MaxDelTasks : DeleteLookup(c, task_id)
    \/ \E c \in Clients : DeleteCall(c)
    \/ EndRound

DeleteSpec == DeleteInit /\ [][DeleteNext]_vars

\* ------------------------------------------------------ the HTTP interface
\* The requests of tasks/urls.py, one at a time, and calls of update_task.
\* A run varies the values of one field.  <int:task_id> matches no negative
\* number.
HttpFocuses == {"title", "due_date", "status"}

HttpIds == 0..MaxHttpTasks

Failures == {0, 1, 2, 3}

NoData ==
    [title |-> None, description |-> None, due_date |-> None, status |-> None]

\* the data of PUT /tasks/<id>/update/: the field of the focus, or nothing
PutRequests(f) ==
    [title : IF f = "title" THEN Optional(TitleValues) ELSE {None},
     description : {None},
     due_date : IF f = "due_date"
                THEN Optional({IsoFormat(d) : d \in DueValues} \cup {NotADate})
                ELSE {None},
     status : IF f = "status" THEN Optional(StatusValues \cup {<<>>})
              ELSE {None}]

Request(task_id, data, html, fail) ==
    [task_id |-> task_id, data |-> data, html |-> html, fail |-> fail]

\* the last request: its name, what it held, the response
Answered(op, request, o) ==
    [op |-> op, arg |-> Some(request), kind |-> o.kind, val |-> o.val]

HttpInit ==
    /\ tasks = <<>>
    /\ nextId = 1
    /\ clock = 0
    /\ focus \in HttpFocuses
    /\ deleted = {}
    /\ ret = NoCall
    /\ Idle

\* POST /tasks/create/
HttpCreate(data, html, fail) ==
    \E o \in {TaskCreateView_post_with(tasks, nextId, clock, data, html, fail)} :
        /\ o.seq <= MaxHttpTasks + 1
        /\ tasks' = o.store
        /\ nextId' = o.seq
        /\ ret' = Answered("POST_create", Request(0, data, html, fail), o)
        /\ UNCHANGED <<clock, focus, deleted, calls>>

\* GET /tasks/
HttpList(fail) ==
    \E o \in TaskListView_get(tasks, nextId, fail) :
        /\ ret' = Answered("GET_list", Request(0, NoData, FALSE, fail), o)
        /\ UNCHANGED <<tasks, nextId, clock, focus, deleted, calls>>

\* GET /tasks/<task_id>/
HttpRetrieve(task_id, fail) ==
    \E o \in {TaskRetrieveView_get(tasks, nextId, task_id, fail)} :
        /\ ret' = Answered("GET_retrieve", Request(task_id, NoData, FALSE, fail), o)
        /\ UNCHANGED <<tasks, nextId, clock, focus, deleted, calls>>

\* PUT /tasks/<task_id>/update/
HttpUpdate(task_id, data, html, fail) ==
    \E o \in {TaskUpdateView_put(tasks, nextId, clock, task_id, data, html, fail)} :
        /\ tasks' = o.store
        /\ ret' = Answered("PUT_update", Request(task_id, data, html, fail), o)
        /\ UNCHANGED <<nextId, clock, focus, deleted, calls>>

\* DELETE /tasks/<task_id>/delete/
HttpDelete(task_id, fail) ==
    \E o \in {TaskDeleteView_delete(tasks, nextId, task_id, fail)} :
        /\ tasks' = o.store
        /\ deleted' = IF Val(o.val).code = HTTP_204_NO_CONTENT
                      THEN deleted \cup {task_id} ELSE deleted
        /\ ret' = Answered("DELETE_delete", Request(task_id, NoData, FALSE, fail), o)
        /\ UNCHANGED <<nextId, clock, focus, calls>>

HttpNext ==
    \/ \E data \in Requests(focus), html \in BOOLEAN, fail \in Failures :
            HttpCreate(data, html, fail)
    \/ \E fail \in Failures : HttpList(fail)
    \/ \E task_id \in HttpIds, fail \in Failures : HttpRetrieve(task_id, fail)
    \/ \E task_id \in HttpIds, data \in PutRequests(focus), html \in BOOLEAN,
          fail \in Failures :
            HttpUpdate(task_id, data, html, fail)
    \/ \E task_id \in HttpIds, fail \in Failures : HttpDelete(task_id, fail)
    \/ \E task_id \in HttpIds, title \in Titles(focus) :
       \E description \in OnRow(tasks, task_id, Descriptions(focus)),
          due_date \in OnRow(tasks, task_id, Dues(focus)),
          status \in OnRow(tasks, task_id, Statuses(focus)) :
            UpdateTask(task_id, title, description, due_date, status)

HttpSpec == HttpInit /\ [][HttpNext]_vars

\* ================================================================ claims
\* The last call was op and it returned v.
Returns(r, op, v) == r.op = op /\ r.kind = "return" /\ r.val = Some(v)

\* The last call was op and it raised exc.
Raises(r, op, exc) == r.op = op /\ r.kind = exc

\* the row task_id is still there, with its id and created_at
KeptIdentity(task_id) ==
    /\ task_id \in DOMAIN tasks
    /\ task_id \in DOMAIN tasks'
    /\ tasks'[task_id].id = tasks[task_id].id
    /\ tasks'[task_id].created_at = tasks[task_id].created_at
    /\ TaskManager_get_task(tasks', nextId', task_id).val # Some(None)
    /\ Val(Val(TaskManager_get_task(tasks', nextId', task_id).val)).created_at
           = Val(Val(TaskManager_get_task(tasks, nextId, task_id).val)).created_at

\* the fields of row task_id that were not supplied are as before
KeptFields(task_id, title, description, due_date, status) ==
    /\ title = None => tasks'[task_id].title = tasks[task_id].title
    /\ description = None =>
           tasks'[task_id].description = tasks[task_id].description
    /\ due_date = None => tasks'[task_id].due_date = tasks[task_id].due_date
    /\ status = None => tasks'[task_id].status = tasks[task_id].status

\* C1: when update_task returns True, the id, created_at and every field
\* that was not supplied of the task are what they were before the call;
\* only the supplied fields and update_task (updated_at) may differ.
C1_PartialUpdate ==
    [][Returns(ret', "update_task", TRUE) =>
        /\ KeptIdentity(Val(ret'.arg))
        /\ \A title \in Titles(focus), description \in Descriptions(focus),
              due_date \in Dues(focus), status \in Statuses(focus) :
               \/ KeptFields(Val(ret'.arg), title, description, due_date, status)
               \/ ~UpdateTask(Val(ret'.arg), title, description, due_date, status)]_vars

\* C1's case: an update_task that returned True on a row whose update_task
\* is now later than its created_at, with the row's other fields in place
C1_Witness ==
    /\ Returns(ret, "update_task", TRUE)
    /\ Val(ret.arg) \in DOMAIN tasks
    /\ tasks[Val(ret.arg)].update_task > tasks[Val(ret.arg)].created_at
    /\ tasks[Val(ret.arg)].description = Some(<<"d">>)

\* C2: for a title that is not blank and a status that is one of the three
\* in any letter case, get_task of the id create_task returned gives the
\* stripped title, the lower-cased status, no description when the input
\* description is empty or whitespace, the stripped description otherwise,
\* and the input due date.
C2_CreateGetRoundTrip ==
    [][(ret'.op = "create_task" /\ ret'.kind = "return") =>
        \A title \in NewTitles(focus), description \in NewDescriptions(focus),
           due_date \in NewDues(focus), status \in NewStatuses(focus) :
            (/\ Strip(title) # <<>>
             /\ Lower(status) \in VALID_STATUSES
             /\ CreateTask(title, description, due_date, status))
                => LET g == TaskManager_get_task(tasks', nextId', Val(ret'.val))
                       task == Val(Val(g.val))
                   IN  /\ g.kind = "return"
                       /\ g.val # Some(None)
                       /\ task.title = Strip(title)
                       /\ task.status = Lower(status)
                       /\ task.description =
                              (IF description = None \/ Strip(Val(description)) = <<>>
                               THEN None
                               ELSE Some(Strip(Val(description))))
                       /\ task.due_date = due_date]_vars

\* C3: in what get_all_tasks returns, a task with a due date comes before
\* every task without one, due dates ascend, and tasks with the same due
\* date or with none come in descending created_at order.
C3_ListingOrder ==
    ret.op = "get_all_tasks" =>
        \A i \in 1..Len(Val(ret.val)), j \in 1..Len(Val(ret.val)) :
            i < j =>
                /\ ~(Val(ret.val)[i].due_date = None /\ Val(ret.val)[j].due_date # None)
                /\ (Val(ret.val)[i].due_date # None /\ Val(ret.val)[j].due_date # None)
                       => Val(Val(ret.val)[i].due_date) <= Val(Val(ret.val)[j].due_date)
                /\ Val(ret.val)[i].due_date = Val(ret.val)[j].due_date
                       => Val(ret.val)[i].created_at >= Val(ret.val)[j].created_at

\* C3's case: a listing in which an older task with a due date comes before
\* a newer one without
C3_Witness ==
    /\ ret.op = "get_all_tasks"
    /\ Len(Val(ret.val)) >= 2
    /\ Val(ret.val)[1].due_date # None
    /\ Val(ret.val)[2].due_date = None
    /\ Val(ret.val)[1].created_at < Val(ret.val)[2].created_at

\* C4: the status of every stored task is pending, in_progress or completed.
C4_StatusInvariant ==
    \A i \in DOMAIN tasks : tasks[i].status \in VALID_STATUSES

\* C5: delete_task of a stored id returns True and removes that row alone;
\* delete_task of an id >= 1 that is not stored returns False and changes
\* nothing; an id once deleted is never stored again.
C5_DeleteSemantics ==
    [][/\ \A task_id \in IdValues :
            (task_id >= 1 /\ ret'.op = "delete_task" /\ DeleteTask(task_id)) =>
                /\ Returns(ret', "delete_task", task_id \in DOMAIN tasks)
                /\ DOMAIN tasks' = DOMAIN tasks \ {task_id}
                /\ \A i \in DOMAIN tasks' : tasks'[i] = tasks[i]
       /\ \A i \in deleted' :
            /\ TaskManager_get_task(tasks', nextId', i).kind = "return"
            /\ TaskManager_get_task(tasks', nextId', i).val = Some(None)]_vars

\* C5's case: after a delete and a later create, get_task of the deleted id
\* returns None while another task is stored
C5_Witness ==
    /\ Returns(ret, "get_task", None)
    /\ Val(ret.arg) \in deleted
    /\ DOMAIN tasks # {}
    /\ \A i \in DOMAIN tasks : i > Val(ret.arg)

\* C6: update_task with description None leaves the stored description as
\* it was; with an empty or whitespace-only description it stores none.
C6_DescriptionUpdate ==
    [][Returns(ret', "update_task", TRUE) =>
        \A title \in Titles(focus), description \in Descriptions(focus),
           due_date \in Dues(focus), status \in Statuses(focus) :
            UpdateTask(Val(ret'.arg), title, description, due_date, status) =>
                /\ description = None =>
                       tasks'[Val(ret'.arg)].description
                           = tasks[Val(ret'.arg)].description
                /\ (description # None /\ Strip(Val(description)) = <<>>) =>
                       tasks'[Val(ret'.arg)].description = None]_vars

\* the table and its sequence are as before the step
StoreUnchanged == tasks' = tasks /\ nextId' = nextId

\* C7: create_task with an empty or whitespace-only title raises ValueError,
\* returns no id and leaves the table as it was; POST /tasks/create/ with
\* no title or a blank one answers 400 and leaves the table as it was.
C7_BlankTitleOnCreate ==
    [][/\ ret'.op = "create_task" =>
            \A title \in NewTitles(focus), description \in NewDescriptions(focus),
               due_date \in NewDues(focus), status \in NewStatuses(focus) :
                (Strip(title) = <<>>
                    /\ CreateTask(title, description, due_date, status)) =>
                        /\ Raises(ret', "create_task", "ValueError")
                        /\ ret'.val = None
                        /\ StoreUnchanged
       /\ ret'.op = "POST_create" =>
            \A data \in Requests(focus), html \in BOOLEAN :
                ((data.title = None \/ Strip(Val(data.title)) = <<>>)
                    /\ PostCreate(data, html)) =>
                        /\ Val(ret'.val).code = HTTP_400_BAD_REQUEST
                        /\ StoreUnchanged]_vars

\* C7's case: create_task raised ValueError, which only a blank title
\* makes it do, with a task stored
C7_Witness ==
    /\ Raises(ret, "create_task", "ValueError")
    /\ DOMAIN tasks # {}

\* C8: for an id below 1, get_task, update_task and delete_task raise
\* ValueError, return nothing and leave the table as it was.
C8_NonPositiveId ==
    [][\A task_id \in IdValues :
        task_id < 1 =>
            /\ (ret'.op = "get_task" /\ GetTask(task_id)) =>
                   /\ Raises(ret', "get_task", "ValueError")
                   /\ ret'.val = None
                   /\ StoreUnchanged
            /\ (ret'.op = "delete_task" /\ DeleteTask(task_id)) =>
                   /\ Raises(ret', "delete_task", "ValueError")
                   /\ ret'.val = None
                   /\ StoreUnchanged
            /\ (ret'.op = "update_task" /\
                \E title \in Titles(focus), description \in Descriptions(focus),
                   due_date \in Dues(focus), status \in Statuses(focus) :
                    UpdateTask(task_id, title, description, due_date, status)) =>
                   /\ Raises(ret', "update_task", "ValueError")
                   /\ ret'.val = None
                   /\ StoreUnchanged]_vars

\* C8's case: delete_task(0) raised ValueError with a task stored
C8_Witness ==
    /\ Raises(ret, "delete_task", "ValueError")
    /\ ret.arg = Some(0)
    /\ DOMAIN tasks # {}

\* C9: for an id >= 1, stored or not, update_task with a supplied title that
\* is empty or whitespace-only raises ValueError and leaves the table as it
\* was.
C9_BlankTitleOnUpdate ==
    [][ret'.op = "update_task" =>
        \A task_id \in IdValues, title \in Titles(focus),
           description \in Descriptions(focus), due_date \in Dues(focus),
           status \in Statuses(focus) :
            (/\ task_id >= 1
             /\ title # None
             /\ Strip(Val(title)) = <<>>
             /\ UpdateTask(task_id, title, description, due_date, status)) =>
                /\ Raises(ret', "update_task", "ValueError")
                /\ StoreUnchanged]_vars

\* the two calls of the round were update_task of the same id, stored when
\* the round started and now, and both have returned True
RoundOfTwo(task_id) ==
    /\ task_id \in DOMAIN base
    /\ task_id \in DOMAIN tasks
    /\ \A c \in Clients :
        /\ pc[c] = "done"
        /\ call[c].task_id = task_id
        /\ call[c].kind = "return"
        /\ call[c].val = Some(TRUE)

\* the store after the calls of first and then of second, one after the other
Serial(first, second) ==
    LET o1 == TaskManager_update_task(base, nextId, clock, call[first].task_id,
                  call[first].title, call[first].description,
                  call[first].due_date, call[first].status)
        o2 == TaskManager_update_task(o1.store, nextId, clock,
                  call[second].task_id, call[second].title,
                  call[second].description, call[second].due_date,
                  call[second].status)
    IN  o2.store

\* rows a and b are the same task, whenever they were last written
SameTask(a, b) ==
    /\ a.id = b.id
    /\ a.title = b.title
    /\ a.description = b.description
    /\ a.due_date = b.due_date
    /\ a.status = b.status
    /\ a.created_at = b.created_at

\* the client that wrote last in the round
LastWriter == steps[Len(steps)].client

\* in the round, c read after d wrote
ReadAfterWrite(c, d) ==
    \E i \in 1..Len(steps), j \in 1..Len(steps) :
        /\ i < j
        /\ steps[i] = [client |-> d, step |-> "write"]
        /\ steps[j] = [client |-> c, step |-> "read"]

Applied(store, seq, now, a) ==
    IF a.op = "delete_task"
    THEN TaskManager_delete_task(store, seq, a.task_id).store
    ELSE TaskManager_update_task(store, seq, now, a.task_id, a.title,
             a.description, a.due_date, a.status).store

\* the rows of store with ids in S
Rows(store, S) == [i \in DOMAIN store \cap S |-> store[i]]

\* the ids this step may touch: the one of the write or delete it makes
Touched ==
    {call'[c].task_id : c \in {d \in Clients :
        \/ pc[d] = "write" /\ pc'[d] = "done"
        \/ pc[d] = "idle" /\ pc'[d] = "done" /\ call'[d].op = "delete_task"}}

\* both clients have made a call in the round, on different ids, and both
\* calls have returned
TwoIds(pcs, cs) ==
    /\ \A c \in Clients : pcs[c] = "done"
    /\ \A c \in Clients : \A d \in Clients \ {c} :
           cs[c].task_id # cs[d].task_id

RoundOnTwoIds == TwoIds(pc, call)

\* C11: a step of update_task or delete_task on one id leaves every stored
\* task with another id in the table and as it was, and a step of create_task
\* leaves every stored task as it was; after two calls on different ids that
\* ran at the same time, the tasks that were stored when they started are
\* what either serial order of the two calls leaves.
C11_DifferentIds ==
    [][/\ \A i \in DOMAIN tasks \ Touched :
            i \in DOMAIN tasks' /\ tasks'[i] = tasks[i]
       /\ TwoIds(pc', call') =>
            \A first \in Clients : \A second \in Clients \ {first} :
                Rows(tasks', DOMAIN base')
                    = Rows(Applied(Applied(base', nextId', clock', call'[first]),
                                   nextId', clock', call'[second]),
                           DOMAIN base')
      ]_vars

\* C11's case: B deleted task 2 between A's read and A's write of task 1,
\* and A's title is stored
C11_Witness ==
    /\ RoundOnTwoIds
    /\ steps = <<[client |-> "A", step |-> "read"],
                 [client |-> "B", step |-> "delete"],
                 [client |-> "A", step |-> "write"]>>
    /\ call["A"].val = Some(TRUE)
    /\ call["B"].val = Some(TRUE)
    /\ 1 \in DOMAIN tasks
    /\ tasks[1].title = <<"c">>
    /\ 2 \in DOMAIN base
    /\ 2 \notin DOMAIN tasks

\* r is the request op, made while the storage works
Asked(r, op) == r.op = op /\ Val(r.arg).fail = 0

\* the status code of the response
Code(r) == Val(r.val).code

\* the data of a request have a blank title, a status that is none of the
\* three, or a due date that is no date
Malformed(data) ==
    \/ data.title # None /\ Strip(Val(data.title)) = <<>>
    \/ data.status # None /\ Lower(Strip(Val(data.status))) \notin VALID_STATUSES
    \/ data.due_date # None /\ ~Val(data.due_date).iso

\* C12: a request with malformed input (POST with no title or malformed
\* data, PUT with malformed data, GET, PUT or DELETE on an id below 1) is
\* answered 400 and leaves the table as it was.
C12_ValidationErrors ==
    [][/\ (Asked(ret', "POST_create") /\
            (Val(ret'.arg).data.title = None \/ Malformed(Val(ret'.arg).data)))
               => Code(ret') = HTTP_400_BAD_REQUEST /\ StoreUnchanged
       /\ (Asked(ret', "PUT_update") /\
            (Val(ret'.arg).task_id < 1 \/ Malformed(Val(ret'.arg).data)))
               => Code(ret') = HTTP_400_BAD_REQUEST /\ StoreUnchanged
       /\ ((Asked(ret', "GET_retrieve") \/ Asked(ret', "DELETE_delete")) /\
            Val(ret'.arg).task_id < 1)
               => Code(ret') = HTTP_400_BAD_REQUEST /\ StoreUnchanged]_vars

\* the n-th TaskManager call of the request r is made, on the table store,
\* and meets the storage failure
Met(r, store) ==
    LET q == Val(r.arg)
        stored == q.task_id \in DOMAIN store
    IN  CASE r.op = "GET_list" -> q.fail = 1
          [] r.op = "POST_create" ->
                /\ q.fail \in {1, 2}
                /\ TaskCreateSerializer(q.data, q.html).valid
          [] r.op = "GET_retrieve" -> q.fail = 1 /\ q.task_id >= 1
          [] r.op = "PUT_update" ->
                /\ q.task_id >= 1
                /\ \/ q.fail = 1
                   \/ /\ q.fail \in {2, 3}
                      /\ stored
                      /\ TaskUpdateSerializer(q.data, q.html).valid
          [] r.op = "DELETE_delete" ->
                /\ q.task_id >= 1
                /\ q.fail = 1 \/ (q.fail = 2 /\ stored)
          [] OTHER -> FALSE

\* C13: when a storage call made while handling a request fails, the
\* response is 500, whichever endpoint was asked.
C13_StorageErrors ==
    [][Met(ret', tasks) => Code(ret') = HTTP_500_INTERNAL_SERVER_ERROR]_vars

\* the status of the data is sent and is, lower-cased, one of the three
StatusSent(data) == data.status # None
StatusValid(data) == Lower(Val(data.status)) \in VALID_STATUSES

C15_UpdateOfMissingTask ==
    [][/\ (/\ ret'.op = "update_task"
           /\ Val(ret'.arg) >= 1
           /\ Val(ret'.arg) \notin DOMAIN tasks) =>
                /\ Returns(ret', "update_task", FALSE)
                /\ StoreUnchanged
       /\ (/\ Asked(ret', "PUT_update")
           /\ Val(ret'.arg).task_id >= 1
           /\ Val(ret'.arg).task_id \notin DOMAIN tasks) =>
                /\ Code(ret') = HTTP_404_NOT_FOUND
                /\ StoreUnchanged]_vars

\* update_task on the id of a deleted task returned False and the table is
\* empty
C15_Witness ==
    /\ Returns(ret, "update_task", FALSE)
    /\ Val(ret.arg) \in deleted
    /\ tasks = <<>>

\* C16: every row is stored under its own id alone, no call changes the id
\* of a row, and the id create_task returns was never returned before: it
\* is the id of no row and of no deleted task, and every id given out so
\* far is below the next one.
C16_IdentityUniqueness ==
    [][/\ \A i \in DOMAIN tasks' : tasks'[i].id = i
       /\ \A i \in DOMAIN tasks \cap DOMAIN tasks' : tasks'[i].id = tasks[i].id
       /\ \A i \in DOMAIN tasks' \cup deleted' : i < nextId'
       /\ (/\ ret'.op = "create_task"
           /\ ret'.kind = "return"
           /\ \E title \in NewTitles(focus), description \in NewDescriptions(focus),
                 due_date \in NewDues(focus), status \in NewStatuses(focus) :
                   CreateTask(title, description, due_date, status)) =>
            /\ Val(ret'.val) \notin DOMAIN tasks \cup deleted
            /\ Val(ret'.val) >= nextId
            /\ DOMAIN tasks' = DOMAIN tasks \cup {Val(ret'.val)}]_vars

\* create_task returned the id 2 after the task 1 was deleted
C16_Witness ==
    /\ Returns(ret, "create_task", 2)
    /\ 1 \in deleted
    /\ DOMAIN tasks = {2}

\* C17: the title of every row is non-empty and has no whitespace at its
\* start or at its end.
C17_TitleInvariant ==
    \A i \in DOMAIN tasks :
        /\ tasks[i].title # <<>>
        /\ Strip(tasks[i].title) = tasks[i].title

\* the step is a call of update_task, mark_completed or mark_pending on
\* task_id
Updates(task_id) ==
    \/ \E title \in Titles(focus), description \in Descriptions(focus),
          due_date \in Dues(focus), status \in Statuses(focus) :
            UpdateTask(task_id, title, description, due_date, status)
    \/ MarkCompleted(task_id)
    \/ MarkPending(task_id)

\* C18: update_task is never before created_at; created_at is the time of
\* the creation and no call changes it; a call of update_task, mark_completed
\* or mark_pending that returns True sets update_task of its row to the time
\* of the call.
C18_TimestampInvariant ==
    [][/\ \A i \in DOMAIN tasks' : tasks'[i].update_task >= tasks'[i].created_at
       /\ \A i \in DOMAIN tasks \cap DOMAIN tasks' :
            tasks'[i].created_at = tasks[i].created_at
       /\ \A i \in DOMAIN tasks' \ DOMAIN tasks :
            tasks'[i].created_at = clock + KolkataOffset
       /\ (/\ ret'.op \in {"update_task", "mark_completed", "mark_pending"}
           /\ ret'.kind = "return"
           /\ ret'.val = Some(TRUE)) =>
            LET task_id == Val(ret'.arg)
            IN  \/ /\ task_id \in DOMAIN tasks'
                   /\ tasks'[task_id].update_task = clock + KolkataOffset
                   /\ Val(Val(TaskManager_get_task(tasks', nextId', task_id).val)).update_task
                          = clock
                \/ ~Updates(task_id)]_vars

\* update_task returned True on a task created at an earlier time
C18_Witness ==
    /\ Returns(ret, "update_task", TRUE)
    /\ Val(ret.arg) \in DOMAIN tasks
    /\ tasks[Val(ret.arg)].update_task > tasks[Val(ret.arg)].created_at

\* the listings get_all_tasks can return on the table store
Listings(store, seq) ==
    {Val(o.val) : o \in TaskManager_get_all_tasks(store, seq)}

\* C19: the list get_all_tasks returns holds every row of the table once,
\* as get_task returns it, and nothing else; a create_task that returns an
\* id makes the list one longer and a delete_task that returns True makes
\* it one shorter.
C19_ListingCompleteness ==
    [][/\ ret'.op = "get_all_tasks" =>
            LET l == Val(ret'.val)
            IN  /\ Len(l) = Cardinality(DOMAIN tasks')
                /\ {l[k].id : k \in 1..Len(l)} = DOMAIN tasks'
                /\ \A k \in 1..Len(l) :
                     Some(Some(l[k])) = TaskManager_get_task(tasks', nextId', l[k].id).val
       /\ (/\ ret'.op = "create_task"
           /\ ret'.kind = "return"
           /\ \E title \in NewTitles(focus), description \in NewDescriptions(focus),
                 due_date \in NewDues(focus), status \in NewStatuses(focus) :
                   CreateTask(title, description, due_date, status)) =>
            \A before \in Listings(tasks, nextId), after \in Listings(tasks', nextId') :
                Len(after) = Len(before) + 1
       /\ (Returns(ret', "delete_task", TRUE) /\ DeleteTask(Val(ret'.arg))) =>
            \A before \in Listings(tasks, nextId), after \in Listings(tasks', nextId') :
                Len(after) = Len(before) - 1]_vars

\* the list of the one task left after another was deleted
C19_Witness ==
    /\ ret.op = "get_all_tasks"
    /\ Len(Val(ret.val)) = 1
    /\ DOMAIN tasks = {2}
    /\ deleted = {1}

\* C20: when the task was deleted after update_task read it, the write of
\* update_task changes no row and the call returns False; a task whose
\* delete_task returned True is in the table never again.
C20_NoResurrection ==
    [][/\ \A c \in Clients :
            (/\ pc[c] = "write"
             /\ pc'[c] = "done"
             /\ call[c].task_id \in deleted) =>
                /\ call'[c].kind = "return"
                /\ call'[c].val = Some(FALSE)
                /\ tasks' = tasks
       /\ \A i \in deleted' : i \notin DOMAIN tasks']_vars

\* a call of update_task that had read its task returned False, the task
\* having been deleted in between
C20_Witness ==
    \E c \in Clients :
        /\ pc[c] = "done"
        /\ call[c].existing_task # None
        /\ call[c].task_id \in deleted
        /\ call[c].kind = "return"
        /\ call[c].val = Some(FALSE)
        /\ tasks = <<>>

\* C21: a row that has a due date has one after every step; a step that
\* changes the due date of a row is no call of update_task without a due
\* date; PUT /tasks/<id>/update/ sent without a due date leaves the due date
\* of the row as it was, and PUT with a date that is accepted stores that
\* date.
C21_DueDateNotCleared ==
    [][/\ \A i \in DOMAIN tasks \cap DOMAIN tasks' :
            tasks[i].due_date # None => tasks'[i].due_date # None
       /\ (ret'.op = "update_task" /\ Val(ret'.arg) \in DOMAIN tasks) =>
            /\ Val(ret'.arg) \in DOMAIN tasks'
            /\ tasks'[Val(ret'.arg)].due_date # tasks[Val(ret'.arg)].due_date =>
                 ~\E title \in Titles(focus), description \in Descriptions(focus),
                     status \in Statuses(focus) :
                       UpdateTask(Val(ret'.arg), title, description, None, status)
       /\ (Asked(ret', "PUT_update") /\ Val(ret'.arg).task_id \in DOMAIN tasks) =>
            LET task_id == Val(ret'.arg).task_id
                due_date == Val(ret'.arg).data.due_date
            IN  /\ task_id \in DOMAIN tasks'
                /\ due_date = None =>
                       tasks'[task_id].due_date = tasks[task_id].due_date
                /\ (due_date # None /\ Code(ret') = HTTP_200_OK) =>
                       tasks'[task_id].due_date = Some(Val(due_date).instant)]_vars

\* PUT without a due date was accepted on a task that has one
C21_Witness ==
    /\ ret.op = "PUT_update"
    /\ Val(ret.arg).fail = 0
    /\ Val(ret.arg).data.due_date = None
    /\ Code(ret) = HTTP_200_OK
    /\ Val(ret.arg).task_id \in DOMAIN tasks
    /\ tasks[Val(ret.arg).task_id].due_date = Some(2)

\* both clients have deleted task_id, a task of the table when the first of
\* them started
DeleteRound(task_id) ==
    /\ task_id \in DOMAIN base
    /\ \A c \in Clients : pc[c] = "done" /\ call[c].task_id = task_id

\* client c was told that it deleted the task: True, or 204
Won(c) ==
    /\ call[c].kind = "return"
    /\ IF call[c].op = "delete_task" THEN call[c].val = Some(TRUE)
       ELSE call[c].val = Some(HTTP_204_NO_CONTENT)

\* client c was told that there was no task: False, or 404
Lost(c) ==
    /\ call[c].kind = "return"
    /\ IF call[c].op = "delete_task" THEN call[c].val = Some(FALSE)
       ELSE call[c].val = Some(HTTP_404_NOT_FOUND)

\* C22: when both clients have deleted the same stored task at the same
\* time, by delete_task or by DELETE, one of them got True (204) and the
\* other False (404), the task is gone and every other task of the table
\* is as it was.
C22_SingleWinner ==
    \A task_id \in 1..MaxDelTasks :
        DeleteRound(task_id) =>
            /\ \E winner \in Clients :
                    Won(winner) /\ \A c \in Clients \ {winner} : Lost(c)
            /\ task_id \notin DOMAIN tasks
            /\ task_id \in deleted
            /\ \A i \in DOMAIN base \ {task_id} :
                    i \in DOMAIN tasks /\ tasks[i] = base[i]

\* both requests had found the task 1 before either deleted it: A got 204
\* and B 404, and the task 2 is still there
C22_Witness ==
    /\ DeleteRound(1)
    /\ steps = <<[client |-> "A", step |-> "lookup"],
                 [client |-> "B", step |-> "lookup"],
                 [client |-> "A", step |-> "delete"],
                 [client |-> "B", step |-> "delete"]>>
    /\ Won("A")
    /\ Lost("B")
    /\ 2 \in DOMAIN tasks

====
